---- MODULE Spec2Model ----
(***************************************************************************)
(* A model of the chronofold crate (src/src/lib.rs and the modules it      *)
(* declares): replicas holding a log of changes with the secondary maps    *)
(* next_indices, references, authors and index_shifts, edited by Sessions  *)
(* and synchronised by exchanging Ops through Chronofold::apply.           *)
(*                                                                         *)
(* Conventions.  Option<T> is a sequence of length <= 1: None is <<>> and  *)
(* Some(x) is <<x>>.  A Timestamp(LogIndex, A) is the pair <<idx, a>>.     *)
(* A BTreeMap is a function whose DOMAIN is its key set.  Log indices are  *)
(* 0-based as in the source, so log[i + 1] is the entry at LogIndex(i).    *)
(* lib.rs is the crate root; where lib.rs and a file it does not declare   *)
(* as a module define the same function, the definition of lib.rs is the   *)
(* one modelled.  In lib.rs `root` is an Option<LogIndex>: the first       *)
(* entry of the causal list.                                               *)
(***************************************************************************)
EXTENDS Integers, Sequences, FiniteSets, TLC

\* ------------------------------------------------------------- bounds
\* Total number of log entries Sessions may create, over all replicas.
MaxOps == 3
\* Longest batch of changes one Session call hands to apply_local_changes.
MaxBatch == 2

\* The replicas; replica r edits under author id r.
Replicas == {1, 2}

\* ------------------------------------------------------------- Option
None == <<>>
Some(x) == <<x>>
IsSome(o) == o /= <<>>
Unwrap(o) == o[1]

Max(a, b) == IF a >= b THEN a ELSE b

\* ------------------------------------------------------------- Change
Root == [kind |-> "Root"]
Insert(v) == [kind |-> "Insert", value |-> v]
Delete == [kind |-> "Delete"]
IsRoot(c) == c.kind = "Root"
IsDelete(c) == c.kind = "Delete"

\* ------------------------------------------------------------- BTreeMap
EmptyMap == <<>>
MapInsert(m, k, v) == [x \in (DOMAIN m) \cup {k} |-> IF x = k THEN v ELSE m[x]]
MapRemove(m, k) == [x \in (DOMAIN m) \ {k} |-> m[x]]

\* ------------------------------------------------------------- OffsetMap
\* RelativeNextIndex::default() and RelativeReference::default().
RelativeNextIndexDefault == 1
RelativeReferenceDefault == -1

\* Offset::add is (value as isize + offset) as usize and Offset::sub is
\* a as isize - b as isize.  The integer key + offset stands for its residue
\* modulo the width of usize (so -1 is usize::MAX).
OffsetAdd(offset, key) == key + offset
OffsetSub(a, b) == a - b

OffsetMapGet(map, default, key) ==
    IF key \in DOMAIN map
    THEN IF map[key] = None THEN None ELSE Some(OffsetAdd(Unwrap(map[key]), key))
    ELSE Some(OffsetAdd(default, key))

\* OffsetMapSet as it would be without the branch that removes the entry of a
\* key set to its default value: the default offset is stored.
OffsetMapSet_StoresDefault(map, default, key, value) ==
    IF IsSome(value)
    THEN MapInsert(map, key, Some(OffsetSub(Unwrap(value), key)))
    ELSE MapInsert(map, key, None)

\* OffsetMapSet as it would be if set() stored nothing.
OffsetMapSet_StoresNothing(map, default, key, value) == map

OffsetMapSet(map, default, key, value) ==
    IF IsSome(value)
    THEN IF OffsetAdd(default, key) = Unwrap(value)
         THEN MapRemove(map, key)
         ELSE MapInsert(map, key, Some(OffsetSub(Unwrap(value), key)))
    ELSE MapInsert(map, key, None)

\* ------------------------------------------------------------- RangeFromMap
RangeFromMapGet(map, key) ==
    LET below == {k \in DOMAIN map : k <= key}
    IN IF below = {} THEN None
       ELSE Some(map[CHOOSE k \in below : \A j \in below : j <= k])

RangeFromMapSet(map, key, value) ==
    IF RangeFromMapGet(map, key) /= Some(value)
    THEN MapInsert(map, key, value)
    ELSE map

\* ------------------------------------------------------------- Timestamp
Timestamp(idx, author) == <<idx, author>>
\* #[derive(PartialOrd, Ord)] on the tuple struct: lexicographic.
TimestampGt(a, b) == a[1] > b[1] \/ (a[1] = b[1] /\ a[2] > b[2])

\* ------------------------------------------------------------- Version
\* VersionInc as it would be if inc() overwrote the entry instead of keeping
\* the maximum.
VersionInc_Overwrites(version, ts) == MapInsert(version, ts[2], ts[1])

VersionInc(version, ts) ==
    IF ts[2] \in DOMAIN version
    THEN [version EXCEPT ![ts[2]] = Max(version[ts[2]], ts[1])]
    ELSE MapInsert(version, ts[2], ts[1])

\* Version::get.
version_get(version, author) ==
    IF author \in DOMAIN version THEN Some(version[author]) ELSE None

\* Version::partial_cmp as it would be if an author missing on the left
\* counted as not smaller (unwrap_or(true)).
partial_cmp_IgnoresMissing(u, v) ==
    LET gt(lhs, rhs) == \A a \in DOMAIN rhs :
                            IsSome(version_get(lhs, a)) => lhs[a] >= rhs[a]
    IN IF u = v THEN Some("Equal")
       ELSE IF gt(u, v) THEN Some("Greater")
       ELSE IF gt(v, u) THEN Some("Less")
       ELSE None

\* Version::partial_cmp.
partial_cmp(u, v) ==
    LET gt(lhs, rhs) == \A a \in DOMAIN rhs :
                            IF IsSome(version_get(lhs, a))
                            THEN Unwrap(version_get(lhs, a)) >= rhs[a]
                            ELSE FALSE
    IN IF u = v THEN Some("Equal")
       ELSE IF gt(u, v) THEN Some("Greater")
       ELSE IF gt(v, u) THEN Some("Less")
       ELSE None

\* ------------------------------------------------------------- Chronofold
ChronofoldDefault ==
    [log |-> <<>>,
     root |-> None,
     version |-> EmptyMap,
     next_indices |-> EmptyMap,
     references |-> EmptyMap,
     authors |-> EmptyMap,
     index_shifts |-> EmptyMap]

next_log_index(cf) == Len(cf.log)

\* Chronofold::get: the change at a log index, None when out of bounds.
get(cf, index) ==
    IF index >= 0 /\ index < Len(cf.log) THEN Some(cf.log[index + 1]) ELSE None

index_after(cf, index) == OffsetMapGet(cf.next_indices, RelativeNextIndexDefault, index)

references_get(cf, index) == OffsetMapGet(cf.references, RelativeReferenceDefault, index)

\* &LogIndex - &IndexShift.  An index shift written by an apply_change whose
\* subtraction wrapped is kept as the (negative) integer new_index - id.0, the
\* residue it wrapped to; subtracting it wraps back to id.0.
timestamp(cf, index) ==
    LET shift == RangeFromMapGet(cf.index_shifts, index)
        author == RangeFromMapGet(cf.authors, index)
    IN IF IsSome(shift) /\ IsSome(author)
       THEN Some(Timestamp(index - Unwrap(shift), Unwrap(author)))
       ELSE None

log_index(cf, ts) ==
    LET hits == {i \in ts[1]..(Len(cf.log) - 1) : Unwrap(timestamp(cf, i)) = ts}
    IN IF hits = {} THEN None
       ELSE Some(CHOOSE i \in hits : \A j \in hits : i <= j)

\* ------------------------------------------------------------- iteration
\* A RangeBounds<LogIndex>: each bound is <<"Unbounded">>, <<"Included", i>>
\* or <<"Excluded", i>>.
Unbounded == <<"Unbounded">>
Included(i) == <<"Included", i>>
Excluded(i) == <<"Excluded", i>>
RangeFull == [start |-> Unbounded, end |-> Unbounded]
RangeFrom(i) == [start |-> Included(i), end |-> Unbounded]

\* CausalIter::next, run to exhaustion: the log indices from `current`
\* following next_indices up to first_excluded.  `fuel` cuts a walk that would
\* not end (a cycle) or that left the log (where the source indexes the log
\* out of bounds).
CausalWalk(cf, current, first_excluded, fuel) ==
    LET walk[c \in Seq(Int), f \in Nat] ==
            IF c = None \/ c = first_excluded \/ f = 0 \/ get(cf, Unwrap(c)) = None
            THEN <<>>
            ELSE <<Unwrap(c)>> \o walk[index_after(cf, Unwrap(c)), f - 1]
    IN walk[current, fuel]

\* Chronofold::iter_log_indices_causal_range.  With the Option<LogIndex> root
\* of lib.rs an unbounded range starts at the root, the head of the list.
CausalStart(cf, range) ==
    LET current == CASE range.start[1] = "Unbounded" -> cf.root
                     [] range.start[1] = "Included" -> Some(range.start[2])
                     [] range.start[1] = "Excluded" -> index_after(cf, range.start[2])
    IN IF IsSome(current) /\ IsSome(get(cf, Unwrap(current)))
          /\ IsRoot(Unwrap(get(cf, Unwrap(current))))
       THEN index_after(cf, Unwrap(current))
       ELSE current

CausalEnd(cf, range) ==
    CASE range.end[1] = "Unbounded" -> None
      [] range.end[1] = "Included" -> index_after(cf, range.end[2])
      [] range.end[1] = "Excluded" -> Some(range.end[2])

iter_log_indices_causal_range(cf, range) ==
    CausalWalk(cf, CausalStart(cf, range), CausalEnd(cf, range), Len(cf.log) + 1)

\* SubtreeFilter as it would be if it kept the root's direct children only
\* (the kept index is not added to the subtree set).
SubtreeFilter_ChildrenOnly(cf, root, walk, subtree) ==
    LET filter[w \in Seq(Int)] ==
            IF w = <<>> THEN <<>>
            ELSE LET idx == Head(w)
                     keep == idx = root \/ references_get(cf, idx) = Some(root)
                 IN IF keep THEN <<idx>> \o filter[Tail(w)] ELSE filter[Tail(w)]
    IN filter[walk]

\* Chronofold::iter_subtree: the filter_map over the causal walk from `root`,
\* keeping root and every entry whose reference is already in the subtree.
SubtreeFilter(cf, root, walk, subtree) ==
    LET filter[w \in Seq(Int), st \in SUBSET Int] ==
            IF w = <<>> THEN <<>>
            ELSE LET idx == Head(w)
                     ref == references_get(cf, idx)
                     keep == idx = root \/ (IsSome(ref) /\ Unwrap(ref) \in st)
                 IN IF keep
                    THEN <<idx>> \o filter[Tail(w), st \cup {idx}]
                    ELSE filter[Tail(w), st]
    IN filter[walk, subtree]

iter_subtree(cf, root) ==
    SubtreeFilter(cf, root, iter_log_indices_causal_range(cf, RangeFrom(root)), {})

Last(s) == IF s = <<>> THEN None ELSE Some(s[Len(s)])

\* The items a sequence holds, as a set.
Range(s) == {s[k] : k \in 1..Len(s)}

\* ------------------------------------------------------------- weave
\* Chronofold::find_predecessor (lib.rs).
find_predecessor(cf, id, reference, change) ==
    IF IsDelete(change) THEN reference
    ELSE LET Sibling(i) == references_get(cf, i) = reference
             Wins(i) == IsDelete(cf.log[i + 1])
                        \/ TimestampGt(Unwrap(timestamp(cf, i)), id)
             Preemptive(i) == Sibling(i) /\ Wins(i)
             last == Last(SelectSeq(iter_log_indices_causal_range(cf, RangeFull),
                                    Preemptive))
         IN IF IsSome(last)
            THEN Last(iter_subtree(cf, Unwrap(last)))
            ELSE reference

\* apply_change as it would be if the new entry took over the next index of
\* its predecessor's successor: the successor drops out of the list.
apply_change_SkipsSuccessor(cf, id, reference, change) ==
    LET predecessor == find_predecessor(cf, id, reference, change)
        new_index == Len(cf.log)
        successor == IF IsSome(predecessor)
                     THEN index_after(cf, Unwrap(predecessor))
                     ELSE cf.root
        next_index == IF IsSome(successor)
                      THEN index_after(cf, Unwrap(successor))
                      ELSE None
        next1 == IF IsSome(predecessor)
                 THEN OffsetMapSet(cf.next_indices, RelativeNextIndexDefault,
                                   Unwrap(predecessor), Some(new_index))
                 ELSE cf.next_indices
    IN [log |-> Append(cf.log, change),
        root |-> IF IsSome(predecessor) THEN cf.root ELSE Some(new_index),
        version |-> VersionInc(cf.version, id),
        next_indices |-> OffsetMapSet(next1, RelativeNextIndexDefault, new_index, next_index),
        references |-> OffsetMapSet(cf.references, RelativeReferenceDefault, new_index, reference),
        authors |-> RangeFromMapSet(cf.authors, new_index, id[2]),
        index_shifts |-> RangeFromMapSet(cf.index_shifts, new_index, new_index - id[1])]

\* apply_change as it would be if the new entry did not take over its
\* predecessor's next index.
apply_change_DropsNext(cf, id, reference, change) ==
    LET predecessor == find_predecessor(cf, id, reference, change)
        new_index == Len(cf.log)
    IN [log |-> Append(cf.log, change),
        root |-> IF IsSome(predecessor) THEN cf.root ELSE Some(new_index),
        version |-> VersionInc(cf.version, id),
        next_indices |-> IF IsSome(predecessor)
                         THEN OffsetMapSet(cf.next_indices, RelativeNextIndexDefault,
                                           Unwrap(predecessor), Some(new_index))
                         ELSE cf.next_indices,
        references |-> OffsetMapSet(cf.references, RelativeReferenceDefault, new_index, reference),
        authors |-> RangeFromMapSet(cf.authors, new_index, id[2]),
        index_shifts |-> RangeFromMapSet(cf.index_shifts, new_index, new_index - id[1])]

\* Chronofold::apply_change (lib.rs).  IndexShift(new_index.0 - (id.0).0) is
\* written as the integer difference; the caller decides what a difference
\* below zero (a usize subtraction that overflows) does.
apply_change(cf, id, reference, change) ==
    LET predecessor == find_predecessor(cf, id, reference, change)
        new_index == Len(cf.log)
        next_index == IF IsSome(predecessor)
                      THEN index_after(cf, Unwrap(predecessor))
                      ELSE cf.root
        next1 == IF IsSome(predecessor)
                 THEN OffsetMapSet(cf.next_indices, RelativeNextIndexDefault,
                                   Unwrap(predecessor), Some(new_index))
                 ELSE cf.next_indices
    IN [log |-> Append(cf.log, change),
        root |-> IF IsSome(predecessor) THEN cf.root ELSE Some(new_index),
        version |-> VersionInc(cf.version, id),
        next_indices |-> OffsetMapSet(next1, RelativeNextIndexDefault, new_index, next_index),
        references |-> OffsetMapSet(cf.references, RelativeReferenceDefault, new_index, reference),
        authors |-> RangeFromMapSet(cf.authors, new_index, id[2]),
        index_shifts |-> RangeFromMapSet(cf.index_shifts, new_index, new_index - id[1])]

\* Whether apply_change's new_index.0 - (id.0).0 overflows usize.
ShiftOverflows(cf, id) == id[1] > Len(cf.log)

\* ------------------------------------------------------------- Op
Op(id, reference, change) == [id |-> id, reference |-> reference, change |-> change]

\* ApplyResult as it would be without the reference lookup's error arm: an
\* unresolved reference falls through to Ok.
ApplyResult_NoUnknownReference(cf, op) ==
    IF IsSome(log_index(cf, op.id)) THEN "ExistingTimestamp" ELSE "Ok"

\* Chronofold::apply (lib.rs): the value returned, and the replica afterwards
\* when it returns Ok.
ApplyResult(cf, op) ==
    IF IsSome(log_index(cf, op.id)) THEN "ExistingTimestamp"
    ELSE IF IsSome(op.reference) /\ ~IsSome(log_index(cf, Unwrap(op.reference)))
         THEN "UnknownReference"
         ELSE "Ok"

\* ApplyState as it would be if an error did not return early: the change is
\* appended whatever apply returns.
ApplyState_AppendsOnError(cf, op) ==
    apply_change(cf, op.id,
                 IF IsSome(op.reference) THEN log_index(cf, Unwrap(op.reference))
                 ELSE None,
                 op.change)

ApplyState(cf, op) ==
    IF ApplyResult(cf, op) /= "Ok" THEN cf
    ELSE apply_change(cf, op.id,
                      IF IsSome(op.reference) THEN log_index(cf, Unwrap(op.reference))
                      ELSE None,
                      op.change)

\* What a call of apply can do: the value ApplyResult names, except that an Ok
\* whose index shift overflows either panics (overflow checks on) or returns
\* Ok with the wrapped shift (overflow checks off).
ApplyOutcomes(cf, op) ==
    IF ApplyResult(cf, op) = "Ok" /\ ShiftOverflows(cf, op.id)
    THEN {"panic", "Ok"}
    ELSE {ApplyResult(cf, op)}

\* Chronofold::apply_local_changes (lib.rs): the batch fast path of a Session.
\* Only the first change writes authors, index_shifts and references, and only
\* the predecessor and the last change write next_indices; the changes in
\* between read the maps' defaults.
apply_local_changes(cf, author, reference, changes) ==
    IF changes = <<>> THEN cf
    ELSE LET new_index == Len(cf.log)
             last_id == Timestamp(new_index + Len(changes) - 1, author)
             last_next_index == IF IsSome(reference)
                                THEN index_after(cf, Unwrap(reference))
                                ELSE cf.root
             next1 == IF IsSome(reference)
                      THEN OffsetMapSet(cf.next_indices, RelativeNextIndexDefault,
                                        Unwrap(reference), Some(new_index))
                      ELSE cf.next_indices
         IN [log |-> cf.log \o changes,
             root |-> IF IsSome(reference) THEN cf.root ELSE Some(new_index),
             version |-> VersionInc(cf.version, last_id),
             next_indices |-> OffsetMapSet(next1, RelativeNextIndexDefault,
                                           last_id[1], last_next_index),
             references |-> OffsetMapSet(cf.references, RelativeReferenceDefault,
                                         new_index, reference),
             authors |-> RangeFromMapSet(cf.authors, new_index, author),
             index_shifts |-> RangeFromMapSet(cf.index_shifts, new_index, 0)]

\* ------------------------------------------------------------- elements
\* skip_while(iter, is Delete): how many leading Deletes of `rest` it skips.
Skipped(cf, rest) ==
    CHOOSE n \in 0..Len(rest) :
        /\ \A k \in 1..n : IsDelete(cf.log[rest[k] + 1])
        /\ (n < Len(rest) => ~IsDelete(cf.log[rest[n + 1] + 1]))

\* Iter::next, run to exhaustion from the state (current, causal_iter = rest):
\* the log indices it yields, and whether it reaches unreachable!().
RECURSIVE IterRun(_, _, _)
IterRun(cf, current, rest) ==
    LET skipped == Skipped(cf, rest)
        after == SubSeq(rest, skipped + 1, Len(rest))
        next == IF after = <<>> THEN None ELSE Some(Head(after))
        rest2 == IF after = <<>> THEN <<>> ELSE Tail(after)
    IN IF skipped = 0
       THEN IF current = None
            THEN [items |-> <<>>, unreachable |-> FALSE]
            ELSE IF cf.log[Unwrap(current) + 1].kind = "Insert"
                 THEN LET r == IterRun(cf, next, rest2)
                      IN [items |-> <<Unwrap(current)>> \o r.items,
                          unreachable |-> r.unreachable]
                 ELSE [items |-> <<>>, unreachable |-> TRUE]
       ELSE IterRun(cf, next, rest2)

\* Chronofold::iter_range and Chronofold::iter.
iter_range(cf, range) ==
    LET walk == iter_log_indices_causal_range(cf, range)
    IN IF walk = <<>> THEN IterRun(cf, None, <<>>)
       ELSE IterRun(cf, Some(Head(walk)), Tail(walk))

iter(cf) == iter_range(cf, RangeFull)

\* Chronofold::len and Chronofold::is_empty.
len(cf) == Len(iter(cf).items)
is_empty(cf) == len(cf) = 0

\* Chronofold::iter_elements, which Display folds into a string.
iter_elements(cf) ==
    LET items == iter(cf).items
    IN [k \in 1..Len(items) |-> cf.log[items[k] + 1].value]

\* ------------------------------------------------------------- ops
\* Ops::next for the log index idx.
OpAt(cf, idx) ==
    LET ref == references_get(cf, idx)
    IN Op(Unwrap(timestamp(cf, idx)),
          IF IsSome(ref) THEN timestamp(cf, Unwrap(ref)) ELSE None,
          cf.log[idx + 1])

\* Chronofold::iter_ops: the ops of the log indices start..end, in log order.
iter_ops(cf, range) ==
    LET oob == Len(cf.log)
        OrOob(o) == IF IsSome(o) THEN Unwrap(o) ELSE oob
        start == CASE range.start[1] = "Unbounded" -> 0
                   [] range.start[1] = "Included" -> range.start[2]
                   [] range.start[1] = "Excluded" -> OrOob(index_after(cf, range.start[2]))
        end == CASE range.end[1] = "Unbounded" -> oob
                 [] range.end[1] = "Included" -> OrOob(index_after(cf, range.end[2]))
                 [] range.end[1] = "Excluded" -> range.end[2]
    IN [k \in 1..(end - start) |-> OpAt(cf, start + k - 1)]

\* Chronofold::iter_newer_ops as it would be with `>=` in the filter.
iter_newer_ops_Inclusive(cf, version) ==
    LET Newer(op) == IF op.id[2] \in DOMAIN version
                     THEN op.id[1] >= version[op.id[2]]
                     ELSE TRUE
    IN SelectSeq(iter_ops(cf, RangeFull), Newer)

\* Chronofold::iter_newer_ops: the ops of iter_ops(..) whose author the
\* version does not know or whose log index is beyond the version's.
iter_newer_ops(cf, version) ==
    LET Newer(op) == IF op.id[2] \in DOMAIN version
                     THEN op.id[1] > version[op.id[2]]
                     ELSE TRUE
    IN SelectSeq(iter_ops(cf, RangeFull), Newer)

\* Session::iter_ops as it would be without the filter on the author.
session_iter_ops_Unfiltered(cf, author, first_index) ==
    iter_ops(cf, RangeFrom(first_index))

\* Session::iter_ops: the ops of the log entries from first_index on that
\* carry the session's author, in log order.
session_iter_ops(cf, author, first_index) ==
    LET Own(op) == op.id[2] = author
    IN SelectSeq(iter_ops(cf, RangeFrom(first_index)), Own)

\* Session::iter_ops: the ops of the log entries from first_index on that
\* carry the session's author.
SessionOps(cf, author, first_index) ==
    {op \in {OpAt(cf, i) : i \in first_index..(Len(cf.log) - 1)} : op.id[2] = author}

\* ------------------------------------------------------------- Session
\* The Session methods as functions of the chronofold they edit.  Where
\* session.rs names the root entry (self.as_ref().root) as the reference that
\* precedes every element, the Option<LogIndex> reference of lib.rs is None.

\* Chronofold::index_before: the causal predecessor, read as the last entry
\* of the causal range reference..index.
index_before(cf, index) ==
    LET reference == references_get(cf, index)
    IN IF IsSome(reference)
       THEN Last(iter_log_indices_causal_range(
                     cf, [start |-> Included(Unwrap(reference)), end |-> Excluded(index)]))
       ELSE None

session_insert_after(cf, author, index, value) ==
    apply_local_changes(cf, author, index, <<Insert(value)>>)

\* Session::remove as it would be if it overwrote the element's log entry
\* besides appending the Delete.
session_remove_Erases(cf, author, index) ==
    apply_local_changes([cf EXCEPT !.log[index + 1] = Delete], author, Some(index), <<Delete>>)

session_remove(cf, author, index) ==
    apply_local_changes(cf, author, Some(index), <<Delete>>)

\* for idx in indices { self.remove(idx) }
RemoveAll(cf, author, indices) ==
    LET step[k \in 0..Len(indices)] ==
            IF k = 0 THEN cf ELSE session_remove(step[k - 1], author, indices[k])
    IN step[Len(indices)]

session_push_back(cf, author, value) ==
    LET items == iter(cf).items
    IN session_insert_after(cf, author, Last(items), value)

session_push_front(cf, author, value) == session_insert_after(cf, author, None, value)

session_clear(cf, author) == RemoveAll(cf, author, iter(cf).items)

\* Session::splice as it would be if it removed the element its range starts
\* at whether or not the range holds it.
session_splice_RemovesStart(cf, author, range, values) ==
    LET last_idx == CASE range.start[1] = "Unbounded" -> None
                      [] range.start[1] = "Included" -> index_before(cf, range.start[2])
                      [] range.start[1] = "Excluded" -> Some(range.start[2])
        to_remove == iter_range(cf, [start |-> range.start, end |-> Unbounded]).items
        first == IF to_remove = <<>> THEN <<>> ELSE <<Head(to_remove)>>
    IN apply_local_changes(RemoveAll(cf, author, first), author, last_idx,
                           [k \in 1..Len(values) |-> Insert(values[k])])

\* What Session::splice returns: apply_local_changes' Some(id.0) of the last
\* change, None when replace_with is empty.
session_splice_returns(cf, author, range, values) ==
    IF values = <<>> THEN None
    ELSE Some(Len(cf.log) + Len(iter_range(cf, range).items) + Len(values) - 1)

\* Session::splice; `values` are the elements of replace_with.
session_splice(cf, author, range, values) ==
    LET last_idx == CASE range.start[1] = "Unbounded" -> None
                      [] range.start[1] = "Included" -> index_before(cf, range.start[2])
                      [] range.start[1] = "Excluded" -> Some(range.start[2])
        to_remove == iter_range(cf, range).items
    IN apply_local_changes(RemoveAll(cf, author, to_remove), author, last_idx,
                           [k \in 1..Len(values) |-> Insert(values[k])])

session_extend(cf, author, values) ==
    LET oob == Len(cf.log)
    IN session_splice(cf, author, [start |-> Included(oob), end |-> Excluded(oob)], values)

\* ------------------------------------------------------------- state
VARIABLES
    cfold,      \* cfold[r]: the Chronofold of replica r
    ops,        \* the ops Sessions have emitted (the transport may deliver
                \* each any number of times, in any order)
    panicked,   \* the replicas whose process panicked
    last        \* the last call: what was called and what it returned

vars == <<cfold, ops, panicked, last>>

Init ==
    /\ cfold = [r \in Replicas |-> ChronofoldDefault]
    /\ ops = {}
    /\ panicked = {}
    /\ last = [call |-> "new", result |-> "Ok"]

\* A Session of replica r (author r) hands `changes` to apply_local_changes
\* with `reference`, then its iter_ops are given to the transport.
SessionEdit(r, call, reference, changes) ==
    /\ r \notin panicked
    /\ Cardinality(ops) + Len(changes) <= MaxOps
    /\ LET first_index == next_log_index(cfold[r])
           cf == apply_local_changes(cfold[r], r, reference, changes)
       IN /\ cfold' = [cfold EXCEPT ![r] = cf]
          /\ ops' = ops \cup SessionOps(cf, r, first_index)
    /\ last' = [call |-> call, result |-> "Ok"]
    /\ UNCHANGED panicked

LogIndices(cf) == 0..(Len(cf.log) - 1)

\* The element a Session inserts.  The crate is generic in the element type T
\* and never inspects an element, so every element is taken distinct from all
\* others (it names the replica and log index that introduce it): any other
\* choice of elements is an image of this one.
Value(r, idx) == <<"v", r, idx>>

\* Session::insert_after, at the beginning (None) or after an entry.
insert_after(r) ==
    \E index \in {None} \cup {Some(i) : i \in LogIndices(cfold[r])} :
        SessionEdit(r, "insert_after", index,
                    <<Insert(Value(r, next_log_index(cfold[r])))>>)

\* Session::remove of an element, tombstoned or not.
remove(r) ==
    \E index \in LogIndices(cfold[r]) :
        /\ cfold[r].log[index + 1].kind = "Insert"
        /\ SessionEdit(r, "remove", Some(index), <<Delete>>)

\* Session::apply_changes with a batch of Inserts, as splice ends with.
apply_changes(r) ==
    \E index \in {None} \cup {Some(i) : i \in LogIndices(cfold[r])},
       n \in 2..MaxBatch :
        SessionEdit(r, "apply_changes", index,
                    [k \in 1..n |-> Insert(Value(r, next_log_index(cfold[r]) + k - 1))])

\* Chronofold::apply(op) on replica r, returning without overflow.
Applies(r, op) ==
    /\ r \notin panicked
    /\ ~(ApplyResult(cfold[r], op) = "Ok" /\ ShiftOverflows(cfold[r], op.id))
    /\ cfold' = [cfold EXCEPT ![r] = ApplyState(cfold[r], op)]
    /\ last' = [call |-> "apply", result |-> ApplyResult(cfold[r], op)]
    /\ UNCHANGED <<ops, panicked>>

\* Chronofold::apply(op) reaching apply_change with id.0 > log.len(): with
\* overflow checks (debug builds) the subtraction panics.
AppliesPanics(r, op) ==
    /\ r \notin panicked
    /\ ApplyResult(cfold[r], op) = "Ok" /\ ShiftOverflows(cfold[r], op.id)
    /\ panicked' = panicked \cup {r}
    /\ last' = [call |-> "apply", result |-> "panic"]
    /\ UNCHANGED <<cfold, ops>>

\* The same without overflow checks (release builds): the subtraction wraps.
AppliesWraps(r, op) ==
    /\ r \notin panicked
    /\ ApplyResult(cfold[r], op) = "Ok" /\ ShiftOverflows(cfold[r], op.id)
    /\ cfold' = [cfold EXCEPT ![r] = ApplyState(cfold[r], op)]
    /\ last' = [call |-> "apply", result |-> "Ok"]
    /\ UNCHANGED <<ops, panicked>>

\* The transport delivers an op some Session emitted.
apply(r) == \E op \in ops : Applies(r, op)
apply_overflow_panics(r) == \E op \in ops : AppliesPanics(r, op)
apply_overflow_wraps(r) == \E op \in ops : AppliesWraps(r, op)

Next ==
    \E r \in Replicas :
        \/ insert_after(r)
        \/ remove(r)
        \/ apply_changes(r)
        \/ apply(r)
        \/ apply_overflow_panics(r)
        \/ apply_overflow_wraps(r)

Spec == Init /\ [][Next]_vars

\* Fair delivery: an op that a replica would accept is eventually delivered
\* to it (a rejected op is kept and delivered again later).
Accepts(r) ==
    /\ apply(r) \/ apply_overflow_panics(r) \/ apply_overflow_wraps(r)
    /\ last'.result \in {"Ok", "panic"}

FairSpec == Spec /\ \A r \in Replicas : WF_vars(Accepts(r))

\* ------------------------------------------------------------- any op
\* apply is public and takes any Op: the ops a peer or a transport may hand
\* it, whether or not a Session emitted them.
MaxAnyIndex == 1
MaxAnyLog == 3
AnyTimestamps == {Timestamp(i, a) : i \in 0..MaxAnyIndex, a \in Replicas}
AnyOps ==
    {Op(id, reference, change) :
        id \in AnyTimestamps,
        reference \in {None} \cup {Some(t) : t \in AnyTimestamps},
        change \in {Insert(<<"v", 0, 0>>), Delete}}

AnyRoom(r) == Len(cfold[r].log) < MaxAnyLog

apply_any(r) == \E op \in AnyOps : AnyRoom(r) /\ Applies(r, op)
apply_any_overflow_panics(r) == \E op \in AnyOps : AnyRoom(r) /\ AppliesPanics(r, op)
apply_any_overflow_wraps(r) == \E op \in AnyOps : AnyRoom(r) /\ AppliesWraps(r, op)

\* One replica fed arbitrary ops.
AnyReplica == CHOOSE r \in Replicas : \A q \in Replicas : r <= q

NextAny ==
    \/ apply_any(AnyReplica)
    \/ apply_any_overflow_panics(AnyReplica)
    \/ apply_any_overflow_wraps(AnyReplica)

SpecAny == Init /\ [][NextAny]_vars

\* ------------------------------------------------------------- four ops
\* The same replicas, Sessions and transport as Spec with room for one more
\* op: an element, its Delete and two Inserts that refer to it.
MaxDeepOps == 4

DeepEdit(r, call, reference, changes) ==
    /\ r \notin panicked
    /\ Cardinality(ops) + Len(changes) <= MaxDeepOps
    /\ LET first_index == next_log_index(cfold[r])
           cf == apply_local_changes(cfold[r], r, reference, changes)
       IN /\ cfold' = [cfold EXCEPT ![r] = cf]
          /\ ops' = ops \cup SessionOps(cf, r, first_index)
    /\ last' = [call |-> call, result |-> "Ok"]
    /\ UNCHANGED panicked

deep_insert_after(r) ==
    \E index \in {None} \cup {Some(i) : i \in LogIndices(cfold[r])} :
        DeepEdit(r, "insert_after", index,
                 <<Insert(Value(r, next_log_index(cfold[r])))>>)

deep_remove(r) ==
    \E index \in LogIndices(cfold[r]) :
        /\ cfold[r].log[index + 1].kind = "Insert"
        /\ DeepEdit(r, "remove", Some(index), <<Delete>>)

deep_apply_changes(r) ==
    \E index \in {None} \cup {Some(i) : i \in LogIndices(cfold[r])},
       n \in 2..MaxBatch :
        DeepEdit(r, "apply_changes", index,
                 [k \in 1..n |-> Insert(Value(r, next_log_index(cfold[r]) + k - 1))])

NextDeep ==
    \E r \in Replicas :
        \/ deep_insert_after(r)
        \/ deep_remove(r)
        \/ deep_apply_changes(r)
        \/ apply(r)
        \/ apply_overflow_panics(r)
        \/ apply_overflow_wraps(r)

SpecDeep == Init /\ [][NextDeep]_vars

\* ------------------------------------------------------------- one author
\* One replica edited through Sessions of one author, with every Session
\* method of the Vec-like API.
MaxVecLog == 4

\* The log indices of the visible elements, and the ranges splice is given:
\* .., a.., a..b and a..=b over visible elements and the out-of-bounds index.
Visible(cf) == Range(iter(cf).items)
SpliceRanges(cf) ==
    LET points == Visible(cf) \cup {Len(cf.log)}
    IN {RangeFull}
       \cup {[start |-> Included(a), end |-> Unbounded] : a \in points}
       \cup {[start |-> Included(a), end |-> Excluded(b)] : a, b \in points}
       \cup {[start |-> Included(a), end |-> Included(b)] : a, b \in Visible(cf)}

\* The elements a Session call inserts when its first insert lands at log
\* index first.
NewValues(r, first, n) == [j \in 1..n |-> Value(r, first + j - 1)]

VecEdit(r, call, cf) ==
    /\ r \notin panicked
    /\ Len(cfold[r].log) < MaxVecLog
    /\ cfold' = [cfold EXCEPT ![r] = cf]
    /\ ops' = ops \cup SessionOps(cf, r, Len(cfold[r].log))
    /\ last' = [call |-> call, result |-> "Ok"]
    /\ UNCHANGED panicked

vec_push_back(r) ==
    VecEdit(r, "push_back", session_push_back(cfold[r], r, Value(r, Len(cfold[r].log))))

vec_push_front(r) ==
    VecEdit(r, "push_front", session_push_front(cfold[r], r, Value(r, Len(cfold[r].log))))

vec_insert_after(r) ==
    \E index \in Visible(cfold[r]) :
        VecEdit(r, "insert_after",
                session_insert_after(cfold[r], r, Some(index), Value(r, Len(cfold[r].log))))

vec_remove(r) ==
    \E index \in Visible(cfold[r]) :
        VecEdit(r, "remove", session_remove(cfold[r], r, index))

vec_extend(r) ==
    \E n \in 1..MaxBatch :
        VecEdit(r, "extend",
                session_extend(cfold[r], r, NewValues(r, Len(cfold[r].log), n)))

vec_splice(r) ==
    \E range \in SpliceRanges(cfold[r]), n \in 0..MaxBatch :
        LET removed == Len(iter_range(cfold[r], range).items)
        IN VecEdit(r, "splice",
                   session_splice(cfold[r], r, range,
                                  NewValues(r, Len(cfold[r].log) + removed, n)))

vec_clear(r) == VecEdit(r, "clear", session_clear(cfold[r], r))

NextVec ==
    \/ vec_push_back(AnyReplica)
    \/ vec_push_front(AnyReplica)
    \/ vec_insert_after(AnyReplica)
    \/ vec_remove(AnyReplica)
    \/ vec_extend(AnyReplica)
    \/ vec_splice(AnyReplica)
    \/ vec_clear(AnyReplica)

SpecVec == Init /\ [][NextVec]_vars

\* ------------------------------------------------------------- offset maps
\* The two OffsetMaps of one chronofold under arbitrary set calls: keys up to
\* MaxKey, values None or any index from the one before the first key (the
\* residue of 0 - 1) to the one after the last.
MaxKey == 1
MapKeys == 0..MaxKey
MapValues == {None} \cup {Some(v) : v \in -1..(MaxKey + 1)}

OffsetMapEdit(cf) ==
    /\ cfold' = [cfold EXCEPT ![AnyReplica] = cf]
    /\ last' = [call |-> "set", result |-> "Ok"]
    /\ UNCHANGED <<ops, panicked>>

\* self.next_indices.set(key, value)
next_indices_set ==
    \E key \in MapKeys, value \in MapValues :
        OffsetMapEdit([cfold[AnyReplica] EXCEPT
            !.next_indices = OffsetMapSet(@, RelativeNextIndexDefault, key, value)])

\* self.references.set(key, value)
references_set ==
    \E key \in MapKeys, value \in MapValues :
        OffsetMapEdit([cfold[AnyReplica] EXCEPT
            !.references = OffsetMapSet(@, RelativeReferenceDefault, key, value)])

NextMap == next_indices_set \/ references_set

SpecMap == Init /\ [][NextMap]_vars

\* ------------------------------------------------------------- claims
Live == Replicas \ panicked

\* The ops a replica has applied: one per log entry, as iter_ops(..) exports.
AppliedOps(cf) == {OpAt(cf, i) : i \in LogIndices(cf)}

\* The causal linked list as timestamps: the next-walk from the head.
CausalTimestamps(cf) ==
    LET walk == iter_log_indices_causal_range(cf, RangeFull)
    IN [k \in 1..Len(walk) |-> Unwrap(timestamp(cf, walk[k]))]

\* Whether some apply on cf went through an index shift that overflowed: an
\* entry whose id's log index lies beyond its own.
Wrapped(cf) == \E i \in DOMAIN cf.index_shifts : cf.index_shifts[i] < 0

\* Replicas that are running and never applied an op through an overflow.
Sound == {r \in Live : ~Wrapped(cfold[r])}

\* C1: two replicas that have applied the same set of ops show the same
\* visible element sequence, whatever the delivery order was (taken where no
\* apply overflowed on either replica).
C1_Convergence ==
    \A r1, r2 \in Sound :
        AppliedOps(cfold[r1]) = AppliedOps(cfold[r2])
            => iter_elements(cfold[r1]) = iter_elements(cfold[r2])

\* C2: two replicas that have applied the same set of ops hold the same causal
\* linked list, read as the timestamps met walking next from the head (taken
\* where no apply overflowed on either replica).
C2_SameCausalList ==
    \A r1, r2 \in Sound :
        AppliedOps(cfold[r1]) = AppliedOps(cfold[r2])
            => CausalTimestamps(cfold[r1]) = CausalTimestamps(cfold[r2])

\* Whether some log entry of cf carries the timestamp ts.
HasTimestamp(cf, ts) == \E i \in LogIndices(cf) : timestamp(cf, i) = Some(ts)

\* Whether a Delete entry of the log targets the entry at index i.
Tombstoned(cf, i) ==
    \E d \in LogIndices(cf) : IsDelete(cf.log[d + 1]) /\ references_get(cf, d) = Some(i)

\* The log indices iter() yields, as a set.
Yielded(cf) == {iter(cf).items[k] : k \in 1..Len(iter(cf).items)}

IsPrefix(s, t) == Len(s) <= Len(t) /\ SubSeq(t, 1, Len(s)) = s

\* C3: applying an op whose id is already the timestamp of a log entry returns
\* ExistingTimestamp and leaves the replica state unchanged.
C3_ExistingTimestamp ==
    \A r \in Live : \A op \in ops :
        HasTimestamp(cfold[r], op.id)
            => /\ ApplyOutcomes(cfold[r], op) = {"ExistingTimestamp"}
               /\ ApplyState(cfold[r], op) = cfold[r]

\* C4 as stated: apply(op) with a reference that is the timestamp of no log
\* entry returns UnknownReference.
C4_UnknownReference ==
    \A op \in AnyOps :
        (IsSome(op.reference) /\ ~HasTimestamp(cfold[AnyReplica], Unwrap(op.reference)))
            => ApplyOutcomes(cfold[AnyReplica], op) = {"UnknownReference"}

\* C4 amended: apply(op) with an id that is the timestamp of no log entry and
\* a reference that is the timestamp of no log entry returns UnknownReference
\* and leaves the replica as it was.
C4_UnknownReferenceOfNewId ==
    \A op \in AnyOps :
        (/\ ~HasTimestamp(cfold[AnyReplica], op.id)
         /\ IsSome(op.reference)
         /\ ~HasTimestamp(cfold[AnyReplica], Unwrap(op.reference)))
            => /\ ApplyOutcomes(cfold[AnyReplica], op) = {"UnknownReference"}
               /\ ApplyState(cfold[AnyReplica], op) = cfold[AnyReplica]

\* An apply has just returned UnknownReference on a replica that holds entries.
C4_Witness ==
    /\ last = [call |-> "apply", result |-> "UnknownReference"]
    /\ cfold[AnyReplica].log /= <<>>

\* C5: apply(op) of an op whose id's log index exceeds the length of the log
\* returns FutureTimestamp (taken where no other error applies: the id is new
\* and the reference absent or known); no entry is ever appended with a
\* negative index shift.
C5_FutureTimestamp ==
    \A r \in Live :
        /\ ~Wrapped(cfold[r])
        /\ \A op \in ops :
               (/\ op.id[1] > Len(cfold[r].log)
                /\ ~HasTimestamp(cfold[r], op.id)
                /\ IsSome(op.reference) => HasTimestamp(cfold[r], Unwrap(op.reference)))
                   => ApplyOutcomes(cfold[r], op) = {"FutureTimestamp"}

\* C6: apply(op) of an emitted op returns Ok wherever op.id has not been
\* applied yet and op's reference, if any, has been applied.
C6_CausalDeliverySuffices ==
    \A r \in Live : \A op \in ops :
        (/\ ~HasTimestamp(cfold[r], op.id)
         /\ IsSome(op.reference) => HasTimestamp(cfold[r], Unwrap(op.reference)))
            => ApplyOutcomes(cfold[r], op) = {"Ok"}

\* C7: under fair delivery every replica eventually holds every emitted op,
\* for good.
C7_EventuallyAllApplied ==
    <>[](\A r \in Replicas : \A op \in ops : op \in AppliedOps(cfold[r]))

\* C8: iter() yields, in causal order, exactly the Insert entries that no
\* Delete entry of the log targets.
C8_IterYieldsUntargetedInserts ==
    \A r \in Sound :
        LET cf == cfold[r]
            Untargeted(i) == cf.log[i + 1].kind = "Insert" /\ ~Tombstoned(cf, i)
        IN /\ ~iter(cf).unreachable
           /\ iter(cf).items
                = SelectSeq(iter_log_indices_causal_range(cf, RangeFull), Untargeted)

\* C9: once a Delete targeting entry i is in the log, no later state of the
\* replica has iter() yield i.
C9_TombstonesNeverResurrect ==
    [][\A r \in Replicas : \A i \in LogIndices(cfold[r]) :
           Tombstoned(cfold[r], i) => i \notin Yielded(cfold'[r])]_vars

\* C10: every step keeps every log as a prefix of what it becomes; an apply
\* that returns Ok appends exactly one entry to exactly one log, an apply
\* that returns an error appends none, a Session edit appends to one log.
C10_AppendOnlyLog ==
    [][LET grown == {r \in Replicas : cfold'[r].log /= cfold[r].log}
       IN /\ \A r \in Replicas : IsPrefix(cfold[r].log, cfold'[r].log)
          /\ Cardinality(grown) <= 1
          /\ (last'.call = "apply" /\ last'.result = "Ok")
                => \E r \in Replicas :
                       /\ grown = {r}
                       /\ Len(cfold'[r].log) = Len(cfold[r].log) + 1
          /\ (last'.call = "apply"
              /\ last'.result \in {"UnknownReference", "ExistingTimestamp"})
                => grown = {}]_vars

\* An apply has just returned Ok on a replica that already held an entry, and
\* an emitted op is one some replica would still reject.
C10_Witness ==
    /\ last = [call |-> "apply", result |-> "Ok"]
    /\ \E r \in Replicas : Len(cfold[r].log) >= 2
    /\ \E r \in Live : \E op \in ops : ApplyResult(cfold[r], op) = "UnknownReference"

\* C11: following next from the first entry of the causal list reaches every
\* log index exactly once and then terminates: the walk is as long as the log
\* and visits every index of it.
C11_CausalWalkTotal ==
    \A r \in Live :
        LET walk == iter_log_indices_causal_range(cfold[r], RangeFull)
        IN /\ Len(walk) = Len(cfold[r].log)
           /\ Range(walk) = LogIndices(cfold[r])

\* A replica holds two entries with no reference and a third entry, after an
\* op of another replica was applied to it.
C11_Witness ==
    \E r \in Live :
        /\ Len(cfold[r].log) >= 3
        /\ Cardinality({i \in LogIndices(cfold[r]) : references_get(cfold[r], i) = None}) >= 2
        /\ \E i \in LogIndices(cfold[r]) : Unwrap(timestamp(cfold[r], i))[2] /= r

\* C12: for every log index i, timestamp(i) is (i - index_shift[i],
\* author[i]), the entry read back as an op is the op that created it, and
\* log_index(timestamp(i)) returns Some(i).
C12_TimestampRoundTrip ==
    \A r \in Live : \A i \in LogIndices(cfold[r]) :
        LET cf == cfold[r]
            ts == timestamp(cf, i)
        IN /\ IsSome(ts)
           /\ Unwrap(ts) = Timestamp(i - Unwrap(RangeFromMapGet(cf.index_shifts, i)),
                                     Unwrap(RangeFromMapGet(cf.authors, i)))
           /\ OpAt(cf, i) \in ops
           /\ log_index(cf, Unwrap(ts)) = Some(i)

\* The originating log indices of the entries of cf authored by a.
Authored(cf, a) ==
    {Unwrap(timestamp(cf, i))[1] :
        i \in {j \in LogIndices(cf) : Unwrap(timestamp(cf, j))[2] = a}}

\* C13: version has an entry for an author iff the log holds an entry of that
\* author, and the entry is the maximum originating log index over the
\* author's entries.
C13_VersionIsMaximum ==
    \A r \in Live :
        LET cf == cfold[r]
        IN /\ DOMAIN cf.version = {a \in Replicas : Authored(cf, a) /= {}}
           /\ \A a \in DOMAIN cf.version :
                  /\ cf.version[a] \in Authored(cf, a)
                  /\ \A x \in Authored(cf, a) : x <= cf.version[a]

\* A replica applied an op of another author after an op of that author with
\* a greater originating log index, with no overflow.
C13_Witness ==
    \E r \in Sound : \E i, j \in LogIndices(cfold[r]) :
        /\ i < j
        /\ Unwrap(timestamp(cfold[r], i))[2] /= r
        /\ Unwrap(timestamp(cfold[r], i))[2] = Unwrap(timestamp(cfold[r], j))[2]
        /\ Unwrap(timestamp(cfold[r], i))[1] > Unwrap(timestamp(cfold[r], j))[1]

\* C14: iter_newer_ops(v), v the version of a peer, yields exactly the ops of
\* this replica's log that the peer has not applied (taken where no apply
\* overflowed on either replica).
C14_NewerOpsAreMissingOps ==
    \A r, peer \in Sound :
        LET newer == iter_newer_ops(cfold[r], cfold[peer].version)
        IN {newer[k] : k \in 1..Len(newer)}
               = AppliedOps(cfold[r]) \ AppliedOps(cfold[peer])

\* The ops of iter_ops(..) applied in the yielded order to an empty replica:
\* the replica obtained, and whether every apply returned Ok.
Replay(cf) ==
    LET exported == iter_ops(cf, RangeFull)
        step[k \in 0..Len(exported)] ==
            IF k = 0 THEN [cf |-> ChronofoldDefault, ok |-> TRUE]
            ELSE [cf |-> ApplyState(step[k - 1].cf, exported[k]),
                  ok |-> /\ step[k - 1].ok
                         /\ ApplyOutcomes(step[k - 1].cf, exported[k]) = {"Ok"}]
    IN step[Len(exported)]

\* C15: the ops of iter_ops(..) applied in log order to an empty replica all
\* succeed and give a replica with the same log, the same next, reference and
\* timestamp at every index, the same version and the same visible sequence
\* (taken where no apply overflowed on the original).
C15_ReplayEqualsOriginal ==
    \A r \in Sound :
        LET cf == cfold[r]
            copy == Replay(cf)
        IN /\ copy.ok
           /\ copy.cf.log = cf.log
           /\ \A i \in LogIndices(cf) :
                  /\ index_after(copy.cf, i) = index_after(cf, i)
                  /\ references_get(copy.cf, i) = references_get(cf, i)
                  /\ timestamp(copy.cf, i) = timestamp(cf, i)
           /\ copy.cf.version = cf.version
           /\ iter_elements(copy.cf) = iter_elements(cf)

\* Vec::insert, Vec::remove and Vec::splice on a sequence, positions from 0.
VecInsert(vec, i, v) == SubSeq(vec, 1, i) \o <<v>> \o SubSeq(vec, i + 1, Len(vec))
VecRemove(vec, i) == SubSeq(vec, 1, i) \o SubSeq(vec, i + 2, Len(vec))
VecSplice(vec, lo, hi, values) == SubSeq(vec, 1, lo) \o values \o SubSeq(vec, hi + 1, Len(vec))

\* The position of the element with log index idx in the visible sequence;
\* the length of the sequence for an index that is no visible element.
Position(cf, idx) ==
    LET items == iter(cf).items
    IN IF idx \in Range(items)
       THEN (CHOOSE k \in 1..Len(items) : items[k] = idx) - 1
       ELSE Len(items)

RangeLo(cf, range) ==
    IF range.start[1] = "Unbounded" THEN 0 ELSE Position(cf, range.start[2])

RangeHi(cf, range) ==
    CASE range.end[1] = "Unbounded" -> Len(iter(cf).items)
      [] range.end[1] = "Excluded" -> Position(cf, range.end[2])
      [] range.end[1] = "Included" -> Position(cf, range.end[2]) + 1

\* C16: on a replica edited by one author, every Session method leaves the
\* visible sequence that the corresponding Vec method gives on the visible
\* sequence before, a log index standing for the position of its element
\* (splice taken on ranges whose start does not lie after their end).
C16_SessionActsLikeVec ==
    LET a == AnyReplica
        cf == cfold[a]
        vec == iter_elements(cf)
        new == Len(cf.log)
        v == Value(a, new)
    IN /\ ~iter(cf).unreachable
       /\ iter_elements(session_push_back(cf, a, v)) = Append(vec, v)
       /\ iter_elements(session_push_front(cf, a, v)) = VecInsert(vec, 0, v)
       /\ iter_elements(session_clear(cf, a)) = <<>>
       /\ \A index \in Visible(cf) :
              /\ iter_elements(session_insert_after(cf, a, Some(index), v))
                     = VecInsert(vec, Position(cf, index) + 1, v)
              /\ iter_elements(session_remove(cf, a, index))
                     = VecRemove(vec, Position(cf, index))
       /\ \A n \in 0..MaxBatch :
              /\ iter_elements(session_extend(cf, a, NewValues(a, new, n)))
                     = vec \o NewValues(a, new, n)
              /\ \A range \in SpliceRanges(cf) :
                     LET lo == RangeLo(cf, range)
                         hi == RangeHi(cf, range)
                         values == NewValues(a, new + hi - lo, n)
                     IN (lo <= hi /\ (range.end[1] = "Included" => lo < hi))
                            => iter_elements(session_splice(cf, a, range, values))
                                   = VecSplice(vec, lo, hi, values)

\* The calls a Session of replica r can make on cf, as the reference and the
\* changes it hands to apply_local_changes: insert_after, remove and a batch.
SessionCalls(cf, r) ==
    LET new == Len(cf.log)
        places == {None} \cup {Some(i) : i \in LogIndices(cf)}
    IN {[reference |-> p, changes |-> <<Insert(Value(r, new))>>] : p \in places}
       \cup {[reference |-> Some(i), changes |-> <<Delete>>] : i \in LogIndices(cf)}
       \cup {[reference |-> p,
              changes |-> <<Insert(Value(r, new)), Insert(Value(r, new + 1))>>] :
                 p \in places}

AfterCall(cf, r, call) == apply_local_changes(cf, r, call.reference, call.changes)

\* The ops a call on cf appends: one per change, its id the log index where
\* the change lands with the session's author, the first referring to the
\* call's reference and every later one to the change before it.
CallOps(cf, r, call) ==
    [k \in 1..Len(call.changes) |->
        Op(Timestamp(Len(cf.log) + k - 1, r),
           IF k > 1 THEN Some(Timestamp(Len(cf.log) + k - 2, r))
           ELSE IF IsSome(call.reference) THEN timestamp(cf, Unwrap(call.reference))
           ELSE None,
           call.changes[k])]

\* C17: Session::iter_ops yields, in log order, exactly one op per entry the
\* session appended since it was created, with id (log index, author): for a
\* session created in any reachable state that makes a call, has an op of
\* another replica applied to the chronofold, and makes a second call.
C17_SessionIterOps ==
    \A r \in Live :
        LET cf == cfold[r]
            first_index == next_log_index(cf)
        IN \A c1 \in SessionCalls(cf, r) :
               LET cf1 == AfterCall(cf, r, c1)
               IN /\ session_iter_ops(cf1, r, first_index) = CallOps(cf, r, c1)
                  /\ \A op \in ops :
                         ApplyOutcomes(cf1, op) = {"Ok"}
                             => LET cf2 == ApplyState(cf1, op)
                                IN \A c2 \in SessionCalls(cf2, r) :
                                       session_iter_ops(AfterCall(cf2, r, c2), r, first_index)
                                           = CallOps(cf, r, c1) \o CallOps(cf2, r, c2)

\* A replica whose last entry came from another replica (at a later log
\* index than its originating one) can still be handed an op it accepts.
C17_Witness ==
    \E r \in Live :
        /\ cfold[r].log /= <<>>
        /\ LET i == Len(cfold[r].log) - 1
           IN /\ Unwrap(timestamp(cfold[r], i))[2] /= r
              /\ Unwrap(timestamp(cfold[r], i))[1] < i
        /\ \E op \in ops : ApplyOutcomes(cfold[r], op) = {"Ok"}

\* C18: apply never aborts: for every op and every reachable replica state it
\* returns Ok or one of the error values UnknownReference, ExistingTimestamp,
\* FutureTimestamp, and never panics.
C18_ApplyNeverAborts ==
    \A r \in Live : \A op \in AnyOps :
        ApplyOutcomes(cfold[r], op)
            \subseteq {"Ok", "UnknownReference", "ExistingTimestamp", "FutureTimestamp"}

\* C19: the Insert entries that share a reference appear in the causal list
\* in strictly descending timestamp order (taken where no apply overflowed).
C19_SiblingsDescend ==
    \A r \in Sound :
        LET cf == cfold[r]
            walk == iter_log_indices_causal_range(cf, RangeFull)
        IN \A j, k \in 1..Len(walk) :
               (/\ j < k
                /\ cf.log[walk[j] + 1].kind = "Insert"
                /\ cf.log[walk[k] + 1].kind = "Insert"
                /\ references_get(cf, walk[j]) = references_get(cf, walk[k]))
                   => TimestampGt(Unwrap(timestamp(cf, walk[j])),
                                  Unwrap(timestamp(cf, walk[k])))

\* The place of a log index in the causal list, counted from 1.
WalkPosition(cf, idx) ==
    LET walk == iter_log_indices_causal_range(cf, RangeFull)
    IN CHOOSE k \in 1..Len(walk) : walk[k] = idx

\* Replica a inserted opx after an element while replica b removed that
\* element with opd, neither having seen the other's op: each replica holds
\* both ops, its own one first in its log.
ConcurrentInsertDelete(a, b, opx, opd) ==
    /\ a /= b
    /\ opx.change.kind = "Insert" /\ opx.id[2] = a
    /\ IsDelete(opd.change) /\ opd.id[2] = b
    /\ IsSome(opx.reference) /\ opx.reference = opd.reference
    /\ \A r \in {a, b} : HasTimestamp(cfold[r], opx.id) /\ HasTimestamp(cfold[r], opd.id)
    /\ Unwrap(log_index(cfold[a], opx.id)) < Unwrap(log_index(cfold[a], opd.id))
    /\ Unwrap(log_index(cfold[b], opd.id)) < Unwrap(log_index(cfold[b], opx.id))

\* On cf the element with timestamp target is not shown and the element with
\* timestamp x stands in its place: behind it in the causal list with nothing
\* but entries of the target's subtree in between, and shown unless a Delete
\* targets it.
StandsInFor(cf, x, target) ==
    LET xi == Unwrap(log_index(cf, x))
        ti == Unwrap(log_index(cf, target))
        walk == iter_log_indices_causal_range(cf, RangeFull)
        subtree == Range(iter_subtree(cf, ti))
    IN /\ ti \notin Yielded(cf)
       /\ Tombstoned(cf, xi) \/ xi \in Yielded(cf)
       /\ xi \in Range(walk) /\ ti \in Range(walk)
       /\ WalkPosition(cf, ti) < WalkPosition(cf, xi)
       /\ \A k \in WalkPosition(cf, ti)..WalkPosition(cf, xi) : walk[k] \in subtree

\* C20: if one replica inserts x after r while another concurrently removes
\* r, then once both have applied each other's ops both show x at r's place
\* and do not show r, whatever the two ops' originating log indices (taken
\* where no apply overflowed).
C20_InsertAfterConcurrentlyRemoved ==
    \A a, b \in Sound : \A opx, opd \in ops :
        ConcurrentInsertDelete(a, b, opx, opd)
            => \A r \in {a, b} : StandsInFor(cfold[r], opx.id, Unwrap(opx.reference))

\* Replica b emitted the Delete opd of an element and no longer shows it;
\* replica a holds the element, shows it and has not seen opd: a's own remove
\* of it is concurrent to opd.
RemovesConcurrently(a, b, opd) ==
    /\ a /= b
    /\ IsDelete(opd.change) /\ opd.id[2] = b
    /\ HasTimestamp(cfold[b], opd.id)
    /\ Unwrap(log_index(cfold[b], Unwrap(opd.reference))) \notin Yielded(cfold[b])
    /\ ~HasTimestamp(cfold[a], opd.id)
    /\ HasTimestamp(cfold[a], Unwrap(opd.reference))
    /\ Unwrap(log_index(cfold[a], Unwrap(opd.reference))) \in Yielded(cfold[a])

\* Replica a after its Session removes opd's target, and the op this emits.
AfterOwnRemove(a, opd) ==
    session_remove(cfold[a], a, Unwrap(log_index(cfold[a], Unwrap(opd.reference))))

OwnRemoveOp(a, opd) == OpAt(AfterOwnRemove(a, opd), Len(cfold[a].log))

\* C21: when two authors concurrently remove the same element, each replica
\* accepts the other's Delete, and after the exchange each shows what it
\* showed after its own remove: the element gone once, every other element
\* in place (taken where no earlier apply overflowed).
C21_ConcurrentRemoves ==
    \A a, b \in Sound : \A opd \in ops :
        RemovesConcurrently(a, b, opd)
            => /\ ApplyOutcomes(AfterOwnRemove(a, opd), opd) = {"Ok"}
               /\ ApplyOutcomes(cfold[b], OwnRemoveOp(a, opd)) = {"Ok"}
               /\ iter_elements(ApplyState(AfterOwnRemove(a, opd), opd))
                      = iter_elements(AfterOwnRemove(a, opd))
               /\ iter_elements(ApplyState(cfold[b], OwnRemoveOp(a, opd)))
                      = iter_elements(cfold[b])

\* The ranges whose bounds name elements of cf, shown or tombstoned, or the
\* end of the log.
ElementRanges(cf) ==
    LET points == {i \in LogIndices(cf) : cf.log[i + 1].kind = "Insert"} \cup {Len(cf.log)}
        bounds == {Unbounded} \cup {Included(i) : i \in points}
                              \cup {Excluded(i) : i \in points}
    IN {[start |-> a, end |-> b] : a, b \in bounds}

\* A range of cf that holds no shown element.
HoldsNoElement(cf, range) ==
    /\ iter_range(cf, range).items = <<>>
    /\ ~iter_range(cf, range).unreachable

Versions == UNION {[S -> 0..MaxAnyIndex] : S \in SUBSET Replicas}

\* The vector-clock order: every author of u is in v with no smaller value.
VersionLeq(u, v) ==
    /\ DOMAIN u \subseteq DOMAIN v
    /\ \A a \in DOMAIN u : v[a] >= u[a]

NotAfter(u, v) == partial_cmp(u, v) \in {Some("Less"), Some("Equal")}

\* C24: partial_cmp is the vector-clock partial order: Equal iff the versions
\* are the same map, Less iff u is below v and differs, Greater iff v is Less
\* than u, None otherwise; it is antisymmetric and transitive.  u is the
\* version of a replica fed arbitrary ops, v and w any bounded versions.
C24_VersionPartialOrder ==
    LET u == cfold[AnyReplica].version
    IN \A v, w \in Versions :
           /\ partial_cmp(u, v) = Some("Equal") <=> u = v
           /\ partial_cmp(u, v) = Some("Less") <=> (VersionLeq(u, v) /\ u /= v)
           /\ partial_cmp(v, u) = Some("Less") <=> (VersionLeq(v, u) /\ u /= v)
           /\ partial_cmp(u, v) = Some("Greater") <=> partial_cmp(v, u) = Some("Less")
           /\ partial_cmp(u, v) = None <=> (~VersionLeq(u, v) /\ ~VersionLeq(v, u))
           /\ (NotAfter(u, v) /\ NotAfter(v, u)) => u = v
           /\ (NotAfter(u, v) /\ NotAfter(v, w)) => NotAfter(u, w)
           /\ (NotAfter(v, u) /\ NotAfter(u, w)) => NotAfter(v, w)
           /\ (NotAfter(v, w) /\ NotAfter(w, u)) => NotAfter(v, u)

\* The replica's version names every author and has versions below it, above
\* it and beside it.
C24_Witness ==
    LET u == cfold[AnyReplica].version
    IN /\ DOMAIN u = Replicas
       /\ \E v \in Versions : partial_cmp(u, v) = Some("Less")
       /\ \E v \in Versions : partial_cmp(u, v) = Some("Greater")
       /\ \E v \in Versions : partial_cmp(u, v) = None

\* The timestamps of the log entries of cf.
LogTimestamps(cf) == {Unwrap(timestamp(cf, i)) : i \in LogIndices(cf)}

\* Session-minted ids extend what the replicas in S hold: the id the next
\* local change gets is greater than the timestamp of every entry in the log.
MintedAboveLog(S) ==
    \A r \in S : \A ts \in LogTimestamps(cfold[r]) :
        TimestampGt(Timestamp(next_log_index(cfold[r]), r), ts)

\* No two ops, and no two entries of one log, carry the same timestamp.
TimestampsUnique ==
    /\ \A op1, op2 \in ops : op1.id = op2.id => op1 = op2
    /\ \A r \in Live : \A i, j \in LogIndices(cfold[r]) :
           timestamp(cfold[r], i) = timestamp(cfold[r], j) => i = j

\* C25: the id (len(log), author) a Session gives a new change is strictly
\* greater than the timestamp of every entry already in that replica's log,
\* and no two distinct ops or log entries carry the same timestamp.
C25_MintedTimestamps == MintedAboveLog(Live) /\ TimestampsUnique

\* The entries whose reference chain leads to s: its transitive descendants.
\* A reference always names an earlier log entry.
Descendants(cf, s) ==
    LET below[i \in LogIndices(cf)] ==
            LET ref == references_get(cf, i)
            IN /\ IsSome(ref)
               /\ Unwrap(ref) \in LogIndices(cf)
               /\ Unwrap(ref) < i
               /\ (Unwrap(ref) = s \/ below[Unwrap(ref)])
    IN {i \in LogIndices(cf) : below[i]}

\* The subtree of s is one block of the causal list that starts at s, and
\* iter_subtree(s) yields that block.
SubtreeContiguous(cf, s) ==
    LET walk == iter_log_indices_causal_range(cf, RangeFull)
        n == Cardinality(Descendants(cf, s))
    IN /\ s \in Range(walk)
       /\ LET k == WalkPosition(cf, s)
          IN /\ k + n <= Len(walk)
             /\ {walk[j] : j \in (k + 1)..(k + n)} = Descendants(cf, s)
             /\ iter_subtree(cf, s) = SubSeq(walk, k, k + n)

\* C26: in every reachable state every subtree is contiguous in the causal
\* list, and iter_subtree(s) yields s first and then exactly its transitive
\* descendants.
C26_SubtreesContiguous ==
    \A r \in Live : \A s \in LogIndices(cfold[r]) : SubtreeContiguous(cfold[r], s)

\* An apply has just run, and a replica holds an entry with descendants that
\* is followed in the causal list by a later-arrived sibling, which
\* find_predecessor placed behind the whole subtree.
C26_Witness ==
    /\ last.call = "apply"
    /\ \E r \in Live :
           LET cf == cfold[r]
               walk == iter_log_indices_causal_range(cf, RangeFull)
           IN \E s \in LogIndices(cf) :
                  LET k == WalkPosition(cf, s)
                      n == Cardinality(Descendants(cf, s))
                  IN /\ n > 0
                     /\ k + n < Len(walk)
                     /\ references_get(cf, walk[k + n + 1]) = references_get(cf, s)
                     /\ \A d \in Descendants(cf, s) : d < walk[k + n + 1]

\* Among the entries of cf that share a reference every Delete precedes every
\* Insert in the causal list.
DeletesFirst(cf) ==
    LET walk == iter_log_indices_causal_range(cf, RangeFull)
    IN \A j, k \in 1..Len(walk) :
           (/\ cf.log[walk[j] + 1].kind = "Insert"
            /\ IsDelete(cf.log[walk[k] + 1])
            /\ references_get(cf, walk[j]) = references_get(cf, walk[k]))
               => k < j

\* C27: a Delete is linked in directly behind its reference, whether a Session
\* creates it or apply receives it, and in every reachable state every Delete
\* precedes every Insert that shares its reference (taken where no apply
\* overflowed).
C27_DeletesPrecedeInserts ==
    \A r \in Sound :
        LET cf == cfold[r]
        IN /\ \A i \in LogIndices(cf) :
                  index_after(session_remove(cf, r, i), i) = Some(Len(cf.log))
           /\ \A op \in ops :
                  (IsDelete(op.change) /\ ApplyOutcomes(cf, op) = {"Ok"})
                      => index_after(ApplyState(cf, op),
                                     Unwrap(log_index(cf, Unwrap(op.reference))))
                             = Some(Len(cf.log))
           /\ DeletesFirst(cf)

\* C28: the Delete entries that target the same reference appear in the
\* causal list in descending timestamp order, whatever the order they were
\* applied in (taken where no apply overflowed).
C28_DeletesDescend ==
    \A r \in Sound :
        LET cf == cfold[r]
            walk == iter_log_indices_causal_range(cf, RangeFull)
        IN \A j, k \in 1..Len(walk) :
               (/\ j < k
                /\ IsDelete(cf.log[walk[j] + 1])
                /\ IsDelete(cf.log[walk[k] + 1])
                /\ references_get(cf, walk[j]) = references_get(cf, walk[k]))
                   => TimestampGt(Unwrap(timestamp(cf, walk[j])),
                                  Unwrap(timestamp(cf, walk[k])))

\* The changes applied one after another through apply_change, each with the
\* id (len(log), author), the first referring to `reference` and every later
\* one to the change before it.
OneByOne(cf, author, reference, changes) ==
    LET step[k \in 0..Len(changes)] ==
            IF k = 0 THEN cf
            ELSE LET before == step[k - 1]
                     new_index == Len(before.log)
                 IN apply_change(before, Timestamp(new_index, author),
                                 IF k = 1 THEN reference ELSE Some(new_index - 1),
                                 changes[k])
    IN step[Len(changes)]

\* C29: apply_local_changes leaves the same log, next, reference, author,
\* index_shift, root and version as applying the changes one by one through
\* apply_change (taken where no apply overflowed).
C29_BatchEqualsOneByOne ==
    \A r \in Sound : \A call \in SessionCalls(cfold[r], r) :
        apply_local_changes(cfold[r], r, call.reference, call.changes)
            = OneByOne(cfold[r], r, call.reference, call.changes)

\* The Delete entries of cf that target the entry at index i, in causal order.
DeletesOf(cf, i) ==
    LET Targets(d) == IsDelete(cf.log[d + 1]) /\ references_get(cf, d) = Some(i)
    IN SelectSeq(iter_log_indices_causal_range(cf, RangeFull), Targets)

\* C30: when a Session inserts after an index that Deletes target, the new
\* Insert refers to the last of those Deletes in causal order, is placed
\* behind all of them and is shown, here and on every replica that accepts
\* its op (taken where no apply overflowed).
C30_InsertAfterTombstone ==
    \A r \in Sound :
        LET cf == cfold[r]
            new == next_log_index(cf)
        IN \A i \in LogIndices(cf) :
               Tombstoned(cf, i)
                   => LET after == session_insert_after(cf, r, Some(i), Value(r, new))
                          op == OpAt(after, new)
                      IN /\ references_get(after, new) = Last(DeletesOf(cf, i))
                         /\ \A d \in Range(DeletesOf(cf, i)) :
                                WalkPosition(after, d) < WalkPosition(after, new)
                         /\ new \in Yielded(after)
                         /\ \A q \in Sound \ {r} :
                                ApplyOutcomes(cfold[q], op) = {"Ok"}
                                    => Len(cfold[q].log) \in Yielded(ApplyState(cfold[q], op))

\* For every entry of the replicas in S with a reference, the reference is a
\* smaller log index of the same log and carries a smaller timestamp.
ReferencesPrecede(S) ==
    \A r \in S : \A i \in LogIndices(cfold[r]) :
        LET cf == cfold[r]
            ref == references_get(cf, i)
        IN IsSome(ref)
               => /\ Unwrap(ref) \in LogIndices(cf)
                  /\ Unwrap(ref) < i
                  /\ TimestampGt(Unwrap(timestamp(cf, i)),
                                 Unwrap(timestamp(cf, Unwrap(ref))))

\* C31: in every reachable state, for every entry i whose reference is
\* present, reference[i] is a local log index strictly smaller than i and
\* timestamp(reference[i]) < timestamp(i).
C31_ReferencesPrecede == ReferencesPrecede(Live)

\* The versions a peer may hand over: any subset of the authors, each with a
\* log index up to MaxOps.
PeerVersions == UNION {[S -> 0..MaxOps] : S \in SUBSET Replicas}

\* The members of the set S of log indices in ascending order.
Ascending(S) ==
    [k \in 1..Cardinality(S) |->
        CHOOSE i \in S : Cardinality({j \in S : j < i}) = k - 1]

\* The log indices of cf whose op the version v does not cover: v has no
\* entry for the op's author, or the op's log index is greater than v's.
NewerIndices(cf, v) ==
    {i \in LogIndices(cf) :
        LET id == Unwrap(timestamp(cf, i))
        IN \/ id[2] \notin DOMAIN v
           \/ id[1] > v[id[2]]}

\* C32: iter_newer_ops(v) yields, in log order, exactly the ops of the log
\* whose author v has no entry for or whose log index is strictly greater
\* than v's entry for the author; an op whose log index equals v[author] is
\* not yielded.
C32_NewerOps ==
    \A r \in Live : \A v \in PeerVersions :
        LET cf == cfold[r]
            newer == iter_newer_ops(cf, v)
            expected == Ascending(NewerIndices(cf, v))
        IN /\ newer = [k \in 1..Len(expected) |-> OpAt(cf, expected[k])]
           /\ \A k \in 1..Len(newer) :
                  newer[k].id[2] \in DOMAIN v => newer[k].id[1] # v[newer[k].id[2]]

\* A replica holds an op whose log index equals the version's entry for its
\* author, a later op of that author, and an op of an author the version
\* does not know; iter_newer_ops has been asked for that version.
C32_Witness ==
    \E r \in Live : \E v \in PeerVersions :
        LET cf == cfold[r]
            newer == iter_newer_ops(cf, v)
        IN /\ \E i \in LogIndices(cf) :
                  LET id == Unwrap(timestamp(cf, i))
                  IN id[2] \in DOMAIN v /\ id[1] = v[id[2]]
           /\ \E k \in 1..Len(newer) : newer[k].id[2] \in DOMAIN v
           /\ \E k \in 1..Len(newer) : newer[k].id[2] \notin DOMAIN v
           /\ Len(newer) < Len(cf.log)

\* The RangeBounds<LogIndex> over the log of cf: each bound unbounded, or
\* including or excluding a log index of the log (the log's length as well
\* where the bound names no entry: `n..` and `..n`).
LogRanges(cf) ==
    LET starts == {Unbounded} \cup {Included(i) : i \in 0..Len(cf.log)}
                              \cup {Excluded(i) : i \in LogIndices(cf)}
        ends == {Unbounded} \cup {Included(i) : i \in LogIndices(cf)}
                            \cup {Excluded(i) : i \in 0..Len(cf.log)}
    IN {[start |-> a, end |-> b] : a \in starts, b \in ends}

\* RangeBounds::contains: the log index i lies within the range.
Contains(range, i) ==
    /\ CASE range.start[1] = "Unbounded" -> TRUE
         [] range.start[1] = "Included" -> range.start[2] <= i
         [] range.start[1] = "Excluded" -> range.start[2] < i
    /\ CASE range.end[1] = "Unbounded" -> TRUE
         [] range.end[1] = "Included" -> i <= range.end[2]
         [] range.end[1] = "Excluded" -> i < range.end[2]

\* Ops::next fails at idx: the entry is a Delete and has no reference
\* (`expect("deletes must have a reference")`).
OpFails(cf, idx) == IsDelete(cf.log[idx + 1]) /\ references_get(cf, idx) = None

\* C33: iter_ops(range) yields one op per log index of the range in ascending
\* log order; the op for index i has id timestamp(i), reference
\* timestamp(reference[i]) (absent iff reference[i] is absent) and the payload
\* kind of the log entry; every Delete entry has a reference, so building its
\* op never fails.
C33_IterOps ==
    \A r \in Live :
        LET cf == cfold[r]
        IN /\ \A i \in LogIndices(cf) : ~OpFails(cf, i)
           /\ \A range \in LogRanges(cf) :
                  LET within == Ascending({i \in LogIndices(cf) : Contains(range, i)})
                      yielded == iter_ops(cf, range)
                  IN /\ Len(yielded) = Len(within)
                     /\ \A k \in 1..Len(within) :
                            LET i == within[k]
                                ref == references_get(cf, i)
                            IN /\ yielded[k].id = Unwrap(timestamp(cf, i))
                               /\ yielded[k].reference
                                      = (IF IsSome(ref) THEN timestamp(cf, Unwrap(ref))
                                         ELSE None)
                               /\ yielded[k].change.kind = cf.log[i + 1].kind

\* The insertion point apply finds for an op it accepts: the predecessor of
\* apply_change, computed before the op is appended.
InsertionPoint(cf, op) ==
    find_predecessor(cf, op.id,
                     IF IsSome(op.reference) THEN log_index(cf, Unwrap(op.reference))
                     ELSE None,
                     op.change)

\* C34: a successful apply with insertion point p changes, among the
\* pre-existing indices, only next[p], which becomes the new index (the list
\* head becomes the new index when there is no p); the new entry's next is the
\* old next[p] (the old head when there is no p); reference, author, index
\* shift and timestamp read at every pre-existing index are unchanged.
C34_ApplyFrame ==
    \A r \in Live : \A op \in ops :
        ApplyResult(cfold[r], op) = "Ok"
            => LET cf == cfold[r]
                   after == ApplyState(cf, op)
                   p == InsertionPoint(cf, op)
                   new_index == Len(cf.log)
               IN /\ \A i \in LogIndices(cf) :
                         /\ Some(i) # p => index_after(after, i) = index_after(cf, i)
                         /\ references_get(after, i) = references_get(cf, i)
                         /\ RangeFromMapGet(after.authors, i) = RangeFromMapGet(cf.authors, i)
                         /\ RangeFromMapGet(after.index_shifts, i)
                                = RangeFromMapGet(cf.index_shifts, i)
                         /\ timestamp(after, i) = timestamp(cf, i)
                  /\ IF IsSome(p)
                     THEN /\ index_after(after, Unwrap(p)) = Some(new_index)
                          /\ index_after(after, new_index) = index_after(cf, Unwrap(p))
                          /\ after.root = cf.root
                     ELSE /\ after.root = Some(new_index)
                          /\ index_after(after, new_index) = cf.root

\* A replica is about to accept an op whose insertion point is an entry that
\* has a successor, and another whose insertion point is the list head of a
\* log that is not empty.
C34_Witness ==
    \E r \in Live :
        /\ \E op \in ops :
               /\ ApplyResult(cfold[r], op) = "Ok"
               /\ IsSome(InsertionPoint(cfold[r], op))
               /\ IsSome(index_after(cfold[r], Unwrap(InsertionPoint(cfold[r], op))))
        /\ \E op \in ops :
               /\ ApplyResult(cfold[r], op) = "Ok"
               /\ InsertionPoint(cfold[r], op) = None
               /\ IsSome(cfold[r].root)

\* splice(range, values) on cf by author a, the range well ordered with lo
\* and hi its positions in the visible sequence: the log grows by one Delete
\* per shown element of the range, each referring to its element, in causal
\* order, followed by the Inserts of values.
SpliceAppends(cf, a, range, values) ==
    LET items == iter(cf).items
        lo == RangeLo(cf, range)
        hi == RangeHi(cf, range)
        after == session_splice(cf, a, range, values)
        old == Len(cf.log)
    IN /\ after.log = cf.log \o [k \in 1..(hi - lo) |-> Delete]
                             \o [k \in 1..Len(values) |-> Insert(values[k])]
       /\ \A k \in 1..(hi - lo) :
              references_get(after, old + k - 1) = Some(items[lo + k])
       /\ LET exported == iter_ops(after, RangeFrom(old))
          IN /\ Len(exported) = (hi - lo) + Len(values)
             /\ \A k \in 1..Len(exported) :
                    IsDelete(exported[k].change) <=> k <= hi - lo

\* The Inserts of the splice are one chain, shown in place of the range:
\* straight after the last shown element that preceded the range.
SplicePlaces(cf, a, range, values) ==
    LET items == iter(cf).items
        lo == RangeLo(cf, range)
        hi == RangeHi(cf, range)
        after == session_splice(cf, a, range, values)
        first == Len(cf.log) + (hi - lo)
    IN /\ \A k \in 2..Len(values) :
              references_get(after, first + k - 1) = Some(first + k - 2)
       /\ iter(after).items
              = SubSeq(items, 1, lo) \o [k \in 1..Len(values) |-> first + k - 1]
                                    \o SubSeq(items, hi + 1, Len(items))

\* splice returns the log index of the last Insert, None without Inserts.
SpliceReturns(cf, a, range, values) ==
    LET after == session_splice(cf, a, range, values)
    IN session_splice_returns(cf, a, range, values)
           = (IF values = <<>> THEN None ELSE Some(Len(after.log) - 1))

\* C35: Session::splice(range, iter) first appends one Delete per live
\* element of the range, in causal order, then the Inserts of iter as one
\* chain placed after the last element preceding the range; all Deletes
\* precede all Inserts in the log and in iter_ops, and the call returns the
\* log index of the last Insert, None when iter is empty (ranges whose start
\* does not lie after their end).
C35_Splice ==
    LET a == AnyReplica
        cf == cfold[a]
    IN \A n \in 0..MaxBatch : \A range \in SpliceRanges(cf) :
           LET lo == RangeLo(cf, range)
               hi == RangeHi(cf, range)
               values == NewValues(a, Len(cf.log) + hi - lo, n)
           IN (lo <= hi /\ (range.end[1] = "Included" => lo < hi))
                  => /\ SpliceAppends(cf, a, range, values)
                     /\ SplicePlaces(cf, a, range, values)
                     /\ SpliceReturns(cf, a, range, values)

\* The ranges of cf whose bounds name elements (Insert entries, shown or
\* tombstoned), the start not lying after the end in the causal list (two
\* excluded bounds name different elements, as slices demand).
ElementBoundRanges(cf) ==
    LET elements == {i \in LogIndices(cf) : cf.log[i + 1].kind = "Insert"}
        bounds == {Unbounded} \cup {Included(i) : i \in elements}
                              \cup {Excluded(i) : i \in elements}
    IN {g \in {[start |-> a, end |-> b] : a, b \in bounds} :
           (g.start[1] # "Unbounded" /\ g.end[1] # "Unbounded")
               => /\ WalkPosition(cf, g.start[2]) <= WalkPosition(cf, g.end[2])
                  /\ (g.start[1] = "Excluded" /\ g.end[1] = "Excluded")
                         => g.start[2] # g.end[2]}

\* The entry at log index i lies within the bounds of the range, by its place
\* in the causal list.
WithinBounds(cf, range, i) ==
    LET pos == WalkPosition(cf, i)
    IN /\ CASE range.start[1] = "Unbounded" -> TRUE
            [] range.start[1] = "Included" -> WalkPosition(cf, range.start[2]) <= pos
            [] range.start[1] = "Excluded" -> WalkPosition(cf, range.start[2]) < pos
       /\ CASE range.end[1] = "Unbounded" -> TRUE
            [] range.end[1] = "Included" -> pos <= WalkPosition(cf, range.end[2])
            [] range.end[1] = "Excluded" -> pos < WalkPosition(cf, range.end[2])

\* C36: iter_range(r) yields a contiguous run of what iter() yields: exactly
\* the live elements whose place in the causal list lies within the bounds of
\* r, in causal order; it never yields an element that iter() does not yield,
\* also when the element at the end bound is tombstoned (replicas on which no
\* apply overflowed).
C36_IterRange ==
    \A r \in Sound :
        LET cf == cfold[r]
            shown == iter(cf).items
        IN \A range \in ElementBoundRanges(cf) :
               LET Within(i) == WithinBounds(cf, range, i)
               IN iter_range(cf, range).items = SelectSeq(shown, Within)

\* The sequence s without the member x.
Without(s, x) ==
    LET Other(i) == i # x
    IN SelectSeq(s, Other)

\* No replica holds an entry appended through an overflowing index shift.
NoneWrapped == \A q \in Replicas : ~Wrapped(cfold[q])

\* Every reference of cf names an element (an Insert entry), none a Delete.
RefersToElements(cf) ==
    \A i \in LogIndices(cf) :
        IsSome(references_get(cf, i))
            => cf.log[Unwrap(references_get(cf, i)) + 1].kind = "Insert"

\* C37: every op that apply accepts changes the visible sequence locally: an
\* Insert adds exactly its own element and removes none; a Delete removes at
\* most its target and neither adds nor removes another element; the order
\* of the other visible elements is unchanged (taken where no apply
\* overflowed, on any replica, the op's apply does not overflow and every
\* reference names an element).
C37_LocalVisibleChange ==
    (NoneWrapped /\ \A q \in Replicas : RefersToElements(cfold[q]))
        => \A r \in Live : \A op \in ops :
               (/\ ApplyOutcomes(cfold[r], op) = {"Ok"}
                /\ RefersToElements(ApplyState(cfold[r], op)))
                   => LET cf == cfold[r]
                          before == iter(cf).items
                          after == iter(ApplyState(cf, op)).items
                          new_index == Len(cf.log)
                      IN IF IsDelete(op.change)
                         THEN LET target == Unwrap(log_index(cf, Unwrap(op.reference)))
                              IN after = before \/ after = Without(before, target)
                         ELSE /\ new_index \in Range(after)
                              /\ Without(after, new_index) = before

\* The causal list of cf: the next-walk from the list head.
NextWalk(cf) == iter_log_indices_causal_range(cf, RangeFull)

\* C38: the relative causal order of two entries never changes once both are
\* in the log: every step leaves the entries of a replica's next-walk in the
\* order they had, new entries being spliced in between.
C38_CausalOrderStable ==
    [][\A r \in Replicas :
           LET before == NextWalk(cfold[r])
               Old(i) == i \in Range(before)
           IN SelectSeq(NextWalk(cfold'[r]), Old) = before]_vars

\* An apply has just linked a new entry in between two entries that were
\* adjacent in the replica's next-walk.
C38_Witness ==
    /\ last.call = "apply" /\ last.result = "Ok"
    /\ \E r \in Live :
           LET walk == NextWalk(cfold[r])
               new == Len(cfold[r].log) - 1
           IN \E k \in 2..(Len(walk) - 1) : walk[k] = new

\* The op is one that apply is to reject on cf: its id is already in the log
\* (ExistingTimestamp), its reference is not (UnknownReference), or its id's
\* log index lies beyond the end of the log (FutureTimestamp).
ToBeRejected(cf, op) ==
    \/ HasTimestamp(cf, op.id)
    \/ IsSome(op.reference) /\ ~HasTimestamp(cf, Unwrap(op.reference))
    \/ op.id[1] > Len(cf.log)

\* C39: every apply of an op that is to be rejected (UnknownReference,
\* FutureTimestamp or ExistingTimestamp) returns and leaves the replica as it
\* was: log, root, version, next, reference, author and index shift (replicas
\* on which no apply overflowed).
C39_ErrorsLeaveStateUnchanged ==
    \A r \in Sound : \A op \in ops :
        ToBeRejected(cfold[r], op)
            => /\ "panic" \notin ApplyOutcomes(cfold[r], op)
               /\ ApplyState(cfold[r], op) = cfold[r]

\* The laws of an OffsetMap with the given default offset, on the map reached
\* and on every set call made on it: get reads the value set, every other key
\* reads as before, a key with no entry reads as key plus default, a set adds
\* no entry but its key's, setting the default value leaves no entry, and no
\* entry holds the default offset.
OffsetMapLaws(map, default) ==
    LET NoStoredDefault(m) == \A k \in DOMAIN m : m[k] # Some(default)
    IN /\ NoStoredDefault(map)
       /\ \A k \in MapKeys \ DOMAIN map :
              OffsetMapGet(map, default, k) = Some(OffsetAdd(default, k))
       /\ \A key \in MapKeys, value \in MapValues :
              LET after == OffsetMapSet(map, default, key, value)
              IN /\ OffsetMapGet(after, default, key) = value
                 /\ \A other \in MapKeys \ {key} :
                        OffsetMapGet(after, default, other)
                            = OffsetMapGet(map, default, other)
                 /\ DOMAIN after \subseteq DOMAIN map \cup {key}
                 /\ value = Some(OffsetAdd(default, key)) => key \notin DOMAIN after
                 /\ NoStoredDefault(after)

\* C40: for an OffsetMap under any sequence of set calls, get(k) returns the
\* value of the last set(k, ..) (None if it was set to None), or k plus the
\* default offset if k was never set; set(k, ..) does not change get of any
\* other key; and no stored entry ever holds the default offset (setting a
\* key to its default value removes the entry).
C40_OffsetMapLaws ==
    /\ OffsetMapLaws(cfold[AnyReplica].next_indices, RelativeNextIndexDefault)
    /\ OffsetMapLaws(cfold[AnyReplica].references, RelativeReferenceDefault)

\* Set calls have left one key of next_indices with None and another with a
\* value that is not its default, and references with None at one key and no
\* entry at another.
C40_Witness ==
    LET cf == cfold[AnyReplica]
    IN /\ last.call = "set"
       /\ \E k, j \in DOMAIN cf.next_indices :
              /\ cf.next_indices[k] = None
              /\ cf.next_indices[j] # None
              /\ OffsetMapGet(cf.next_indices, RelativeNextIndexDefault, j)
                     # Some(j + RelativeNextIndexDefault)
       /\ \E k \in DOMAIN cf.references : cf.references[k] = None
       /\ DOMAIN cf.references # MapKeys

====
